---- MODULE Spec2Model ----
(***************************************************************************)
(* Model of src/src/arc.rs: SafeArc<T> / Weak<T>, a reference-counted      *)
(* pointer with a strong and a weak counter in one heap block (ArcData).   *)
(* Every atomic operation of the source is one step of one thread; the     *)
(* threads interleave freely.  A handle is a slot of `kind`; the borrow    *)
(* rules of the language (&self, &mut self, self by value) decide which    *)
(* operations may start on a handle while others are running on it.        *)
(*                                                                         *)
(* After it come the independent primitives, each with a specification of  *)
(* its own: channel.rs (SpecChannel), channel_split.rs (SpecSplit),        *)
(* bounded_queue.rs (SpecQueue) and safe_vec.rs (SpecVec).                 *)
(***************************************************************************)
EXTENDS Integers, FiniteSets, Sequences, TLC

\* ---- bounds of the model ----
NumThreads == 2
MaxHandles == 3
NumMsgs == 4
MaxRounds == 2
Loops == 3
MaxCap == 2
MaxPushes == 4
NumSemThreads == 3
MaxValue == 2
MaxSemOps == 4

\* usize::MAX, on a word narrowed to 4 bits
UsizeMax == 15

Threads == 1..NumThreads
Handles == 1..MaxHandles
Values  == {1, 2}
Poison  == 0

VARIABLES
  strong,      \* ArcData.strong
  weak,        \* ArcData.weak
  data,        \* ArcData.data (the payload)
  kind,        \* kind[h]: "none", "strong" (a SafeArc) or "weak" (a Weak)
  pc,          \* pc[t]: position of thread t inside the operation it runs
  hnd,         \* hnd[t]: the handle thread t has borrowed (0: none)
  n,           \* n[t]: the local `n` / `strong_count` of downgrade / upgrade
  is_unique,   \* is_unique[t]: the local of get_mut
  aborted,     \* std::process::abort() was called
  dropCount,   \* how many times the payload destructor ran
  freed,       \* how many times the block was freed
  freedBy,     \* which drop freed the block: "none", "strong" or "weak"
  strongOnes,  \* how many fetch_sub on strong returned 1
  weakOnes,    \* how many fetch_sub on weak returned 1
  uafBlock,    \* a counter of a freed block was accessed
  uafPayload,  \* a destroyed payload was accessed
  initVal,     \* the value passed to new
  mutated,     \* the payload was written through a get_mut reference
  outlived,    \* the last strong drop released its unit with Weak handles live
  quiet,       \* quiet[t]: no other thread ran since t called get_mut
  keep,        \* keep[t]: a strong handle was live all through t's upgrade
  retried      \* retried[t]: the loop of t's upgrade has gone round again

arcVars == <<strong, weak, data, kind, pc, hnd, n, is_unique, aborted,
             dropCount, freed, freedBy, strongOnes, weakOnes, uafBlock,
             uafPayload, initVal, mutated, outlived, quiet, keep, retried>>

\* the other primitives of the repository, each one object with its client
\* threads; <<>> while the object does not exist
VARIABLES
  chan,        \* a Channel (channel.rs, channel_split.rs) and its two threads
  sq,          \* a SharedQueue (bounded_queue.rs) and its three threads
  sv,          \* a SafeVec (safe_vec.rs) and the pushes made on it
  sem          \* a Semaphore (semaphore.rs) and the threads that use it

otherVars == <<chan, sq, sv, sem>>
vars == <<arcVars, otherVars>>

NoOthers == chan = <<>> /\ sq = <<>> /\ sv = <<>> /\ sem = <<>>

\* ---- arithmetic of AtomicUsize: wrapping ----
WrapAdd(x, d) == (x + d) % (UsizeMax + 1)
WrapSub(x, d) == (x - d + UsizeMax + 1) % (UsizeMax + 1)

\* ---- handles ----
NumStrong == Cardinality({h \in Handles : kind[h] = "strong"})
NumWeak   == Cardinality({h \in Handles : kind[h] = "weak"})
FreeSlots == {h \in Handles : kind[h] = "none"}

SharedPcs == {"cl_add", "up_loop", "up_some", "up_none", "deref"}
ExclPcs   == {"gm_load", "gm_store", "gm_some", "gm_none", "dg_loop"}
MintPcs   == {"cl_add", "up_loop", "up_some", "dg_loop"}

SharedBorrowed(h) == \E t \in Threads : hnd[t] = h /\ pc[t] \in SharedPcs
ExclBorrowed(h)   == \E t \in Threads : hnd[t] = h /\ pc[t] \in ExclPcs
Borrowed(h)       == SharedBorrowed(h) \/ ExclBorrowed(h)

\* operations that will create a handle when they return
Minting == Cardinality({t \in Threads : pc[t] \in MintPcs})
CanMint == Cardinality(FreeSlots) > Minting
NewSlot == CHOOSE h \in FreeSlots : \A g \in FreeSlots : h <= g

AllIdleBut(t) == \A u \in Threads \ {t} : pc[u] = "idle"

\* thread t starts an operation: no get_mut of another thread is alone
Begin(t) == quiet' = [u \in Threads |-> FALSE]

TouchBlock   == uafBlock' = (uafBlock \/ freed > 0)
TouchPayload == uafPayload' = (uafPayload \/ dropCount > 0 \/ freed > 0)

\* SafeArc::new: everything but the strong counter
InitRest ==
  /\ weak = 1
  /\ initVal \in Values
  /\ data = initVal
  /\ mutated = FALSE
  /\ outlived = FALSE
  /\ kind = [h \in Handles |-> IF h = 1 THEN "strong" ELSE "none"]
  /\ pc = [t \in Threads |-> "idle"]
  /\ hnd = [t \in Threads |-> 0]
  /\ n = [t \in Threads |-> 0]
  /\ is_unique = [t \in Threads |-> FALSE]
  /\ aborted = FALSE
  /\ dropCount = 0
  /\ freed = 0
  /\ freedBy = "none"
  /\ strongOnes = 0
  /\ weakOnes = 0
  /\ uafBlock = FALSE
  /\ uafPayload = FALSE
  /\ quiet = [t \in Threads |-> FALSE]
  /\ keep = [t \in Threads |-> FALSE]
  /\ retried = [t \in Threads |-> FALSE]

Init ==
  /\ strong = 1
  /\ InitRest
  /\ NoOthers

\* the block after new, or after new and clones forgotten with mem::forget,
\* which leave strong at half of usize::MAX with one live handle
InitLeaked ==
  /\ strong \in {1, UsizeMax \div 2}
  /\ InitRest
  /\ NoOthers

\* ---- impl Clone for SafeArc (arc.rs 132-140) ----
\* the load of strong and the overflow check
CloneLoad(t, h) ==
  /\ ~aborted /\ pc[t] = "idle"
  /\ kind[h] = "strong" /\ ~ExclBorrowed(h) /\ CanMint
  /\ TouchBlock
  /\ IF strong > UsizeMax \div 2
       THEN aborted' = TRUE /\ UNCHANGED <<pc, hnd>>
       ELSE /\ aborted' = FALSE
            /\ pc' = [pc EXCEPT ![t] = "cl_add"]
            /\ hnd' = [hnd EXCEPT ![t] = h]
  /\ Begin(t)
  /\ UNCHANGED <<strong, weak, data, kind, n, is_unique, dropCount, freed,
                 freedBy, strongOnes, weakOnes, uafPayload, keep, initVal,
                 mutated, outlived>>
  /\ UNCHANGED <<retried, otherVars>>

\* variant: the handle is copied without the fetch_add
CloneAdd_NoIncrement(t) ==
  /\ ~aborted /\ pc[t] = "cl_add"
  /\ TouchBlock
  /\ strong' = strong
  /\ kind' = [kind EXCEPT ![NewSlot] = "strong"]
  /\ pc' = [pc EXCEPT ![t] = "idle"]
  /\ hnd' = [hnd EXCEPT ![t] = 0]
  /\ UNCHANGED <<weak, data, n, is_unique, aborted, dropCount, freed,
                 freedBy, strongOnes, weakOnes, uafPayload, quiet, keep,
                 initVal, mutated, outlived>>
  /\ UNCHANGED <<retried, otherVars>>

\* strong.fetch_add(1); Self { ptr }
\* variant: the clone waits while a get_mut holds the sentinel
CloneAdd_WaitsForSentinel(t) ==
  /\ ~aborted /\ pc[t] = "cl_add"
  /\ weak # UsizeMax
  /\ TouchBlock
  /\ strong' = WrapAdd(strong, 1)
  /\ kind' = [kind EXCEPT ![NewSlot] = "strong"]
  /\ pc' = [pc EXCEPT ![t] = "idle"]
  /\ hnd' = [hnd EXCEPT ![t] = 0]
  /\ UNCHANGED <<weak, data, n, is_unique, aborted, dropCount, freed,
                 freedBy, strongOnes, weakOnes, uafPayload, quiet, keep,
                 initVal, mutated, outlived>>
  /\ UNCHANGED <<retried, otherVars>>

CloneAdd(t) ==
  /\ ~aborted /\ pc[t] = "cl_add"
  /\ TouchBlock
  /\ strong' = WrapAdd(strong, 1)
  /\ kind' = [kind EXCEPT ![NewSlot] = "strong"]
  /\ pc' = [pc EXCEPT ![t] = "idle"]
  /\ hnd' = [hnd EXCEPT ![t] = 0]
  /\ UNCHANGED <<weak, data, n, is_unique, aborted, dropCount, freed,
                 freedBy, strongOnes, weakOnes, uafPayload, quiet, keep,
                 initVal, mutated, outlived>>
  /\ UNCHANGED <<retried, otherVars>>

\* ---- impl Drop for SafeArc (arc.rs 142-151) ----
\* variant: the value after the decrement is compared with 1
DropFetchSub_NewValue(t, h) ==
  /\ ~aborted /\ pc[t] = "idle"
  /\ kind[h] = "strong" /\ ~Borrowed(h)
  /\ TouchBlock
  /\ strong' = WrapSub(strong, 1)
  /\ kind' = [kind EXCEPT ![h] = "none"]
  /\ strongOnes' = IF strong = 2 THEN strongOnes + 1 ELSE strongOnes
  /\ pc' = [pc EXCEPT ![t] = IF strong = 2 THEN "sd_destroy" ELSE "idle"]
  /\ Begin(t)
  /\ keep' = [u \in Threads |-> keep[u] /\ NumStrong > 1]
  /\ UNCHANGED <<weak, data, hnd, n, is_unique, aborted, dropCount, freed,
                 freedBy, weakOnes, uafPayload, initVal, mutated, outlived>>
  /\ UNCHANGED <<retried, otherVars>>

\* variant: every strong drop releases a weak unit
DropFetchSub_AlwaysRelease(t, h) ==
  /\ ~aborted /\ pc[t] = "idle"
  /\ kind[h] = "strong" /\ ~Borrowed(h)
  /\ TouchBlock
  /\ strong' = WrapSub(strong, 1)
  /\ kind' = [kind EXCEPT ![h] = "none"]
  /\ strongOnes' = IF strong = 1 THEN strongOnes + 1 ELSE strongOnes
  /\ pc' = [pc EXCEPT ![t] = IF strong = 1 THEN "sd_destroy" ELSE "sd_weak"]
  /\ Begin(t)
  /\ keep' = [u \in Threads |-> keep[u] /\ NumStrong > 1]
  /\ UNCHANGED <<weak, data, hnd, n, is_unique, aborted, dropCount, freed,
                 freedBy, weakOnes, uafPayload, initVal, mutated, outlived>>
  /\ UNCHANGED <<retried, otherVars>>

\* strong.fetch_sub(1) == 1 ?  The handle is consumed.
DropFetchSub(t, h) ==
  /\ ~aborted /\ pc[t] = "idle"
  /\ kind[h] = "strong" /\ ~Borrowed(h)
  /\ TouchBlock
  /\ strong' = WrapSub(strong, 1)
  /\ kind' = [kind EXCEPT ![h] = "none"]
  /\ strongOnes' = IF strong = 1 THEN strongOnes + 1 ELSE strongOnes
  /\ pc' = [pc EXCEPT ![t] = IF strong = 1 THEN "sd_destroy" ELSE "idle"]
  /\ Begin(t)
  /\ keep' = [u \in Threads |-> keep[u] /\ NumStrong > 1]
  /\ UNCHANGED <<weak, data, hnd, n, is_unique, aborted, dropCount, freed,
                 freedBy, weakOnes, uafPayload, initVal, mutated, outlived>>
  /\ UNCHANGED <<retried, otherVars>>

\* ManuallyDrop::drop(&mut data)
DropDestroy(t) ==
  /\ ~aborted /\ pc[t] = "sd_destroy"
  /\ TouchPayload
  /\ dropCount' = dropCount + 1
  /\ data' = Poison
  /\ pc' = [pc EXCEPT ![t] = "sd_weak"]
  /\ UNCHANGED <<strong, weak, kind, hnd, n, is_unique, aborted, freed,
                 freedBy, strongOnes, weakOnes, uafBlock, quiet, keep,
                 initVal, mutated, outlived>>
  /\ UNCHANGED <<retried, otherVars>>

\* ---- impl Drop for Weak (arc.rs 55-62) ----
\* variant: the value after the decrement is compared with 1
WeakFetchSub_NewValue(t, next) ==
  /\ TouchBlock
  /\ weak' = WrapSub(weak, 1)
  /\ weakOnes' = IF weak = 2 THEN weakOnes + 1 ELSE weakOnes
  /\ pc' = [pc EXCEPT ![t] = IF weak = 2 THEN next ELSE "idle"]
  /\ UNCHANGED <<retried, otherVars>>

\* weak.fetch_sub(1) == 1 ?  next: where the thread goes when it is
WeakFetchSub(t, next) ==
  /\ TouchBlock
  /\ weak' = WrapSub(weak, 1)
  /\ weakOnes' = IF weak = 1 THEN weakOnes + 1 ELSE weakOnes
  /\ pc' = [pc EXCEPT ![t] = IF weak = 1 THEN next ELSE "idle"]
  /\ UNCHANGED <<retried, otherVars>>

\* variant: the payload is a plain field, dropped again with the Box
FreeBlock_DropsPayload(t, who) ==
  /\ freed' = freed + 1
  /\ freedBy' = who
  /\ dropCount' = dropCount + 1
  /\ pc' = [pc EXCEPT ![t] = "idle"]
  /\ UNCHANGED <<strong, weak, data, kind, hnd, n, is_unique, aborted,
                 strongOnes, weakOnes, uafBlock, uafPayload, quiet, keep,
                 initVal, mutated, outlived>>
  /\ UNCHANGED <<retried, otherVars>>

\* drop(Box::from_raw(ptr)): data is ManuallyDrop, its destructor is not run
FreeBlock(t, who) ==
  /\ freed' = freed + 1
  /\ freedBy' = who
  /\ pc' = [pc EXCEPT ![t] = "idle"]
  /\ UNCHANGED <<strong, weak, data, kind, hnd, n, is_unique, aborted,
                 dropCount, strongOnes, weakOnes, uafBlock, uafPayload,
                 quiet, keep, initVal, mutated, outlived>>
  /\ UNCHANGED <<retried, otherVars>>

\* variant: the last strong drop frees the block without counting
DropReleaseWeak_Free(t) ==
  /\ ~aborted /\ pc[t] = "sd_weak"
  /\ TouchBlock
  /\ pc' = [pc EXCEPT ![t] = "sd_free"]
  /\ outlived' = (NumWeak >= 1)
  /\ UNCHANGED <<strong, weak, weakOnes, data, kind, hnd, n, is_unique,
                 aborted, dropCount, freed, freedBy, strongOnes, uafPayload,
                 quiet, keep, initVal, mutated>>
  /\ UNCHANGED <<retried, otherVars>>

\* drop(Weak { ptr: self.ptr }) at the end of SafeArc::drop
DropReleaseWeak(t) ==
  /\ ~aborted /\ pc[t] = "sd_weak"
  /\ WeakFetchSub(t, "sd_free")
  /\ outlived' = (NumWeak >= 1)
  /\ UNCHANGED <<strong, data, kind, hnd, n, is_unique, aborted, dropCount,
                 freed, freedBy, strongOnes, uafPayload, quiet, keep,
                 initVal, mutated>>
  /\ UNCHANGED <<retried, otherVars>>

DropFree(t) ==
  /\ ~aborted /\ pc[t] = "sd_free"
  /\ FreeBlock(t, "strong")
  /\ UNCHANGED <<retried, otherVars>>

WeakDropFetchSub(t, h) ==
  /\ ~aborted /\ pc[t] = "idle"
  /\ kind[h] = "weak" /\ ~Borrowed(h)
  /\ WeakFetchSub(t, "wd_free")
  /\ kind' = [kind EXCEPT ![h] = "none"]
  /\ Begin(t)
  /\ UNCHANGED <<strong, data, hnd, n, is_unique, aborted, dropCount, freed,
                 freedBy, strongOnes, uafPayload, keep, initVal, mutated,
                 outlived>>
  /\ UNCHANGED <<retried, otherVars>>

WeakDropFree(t) ==
  /\ ~aborted /\ pc[t] = "wd_free"
  /\ FreeBlock(t, "weak")
  /\ UNCHANGED <<retried, otherVars>>

\* ---- impl Clone for Weak (arc.rs 46-53) ----
\* variant: the handle is copied without the fetch_add
WeakClone_NoIncrement(t, h) ==
  /\ ~aborted /\ pc[t] = "idle"
  /\ kind[h] = "weak" /\ ~ExclBorrowed(h) /\ CanMint
  /\ TouchBlock
  /\ weak' = weak
  /\ kind' = [kind EXCEPT ![NewSlot] = "weak"]
  /\ Begin(t)
  /\ UNCHANGED <<strong, data, pc, hnd, n, is_unique, aborted, dropCount,
                 freed, freedBy, strongOnes, weakOnes, uafPayload, keep,
                 initVal, mutated, outlived>>
  /\ UNCHANGED <<retried, otherVars>>

WeakClone(t, h) ==
  /\ ~aborted /\ pc[t] = "idle"
  /\ kind[h] = "weak" /\ ~ExclBorrowed(h) /\ CanMint
  /\ TouchBlock
  /\ weak' = WrapAdd(weak, 1)
  /\ kind' = [kind EXCEPT ![NewSlot] = "weak"]
  /\ Begin(t)
  /\ UNCHANGED <<strong, data, pc, hnd, n, is_unique, aborted, dropCount,
                 freed, freedBy, strongOnes, weakOnes, uafPayload, keep,
                 initVal, mutated, outlived>>
  /\ UNCHANGED <<retried, otherVars>>

\* ---- Weak::upgrade (arc.rs 26-43) ----
\* let mut strong_count = strong.load()
UpgradeLoad(t, h) ==
  /\ ~aborted /\ pc[t] = "idle"
  /\ kind[h] = "weak" /\ ~ExclBorrowed(h) /\ CanMint
  /\ TouchBlock
  /\ n' = [n EXCEPT ![t] = strong]
  /\ pc' = [pc EXCEPT ![t] = "up_loop"]
  /\ hnd' = [hnd EXCEPT ![t] = h]
  /\ Begin(t)
  /\ keep' = [keep EXCEPT ![t] = NumStrong > 0]
  /\ UNCHANGED <<strong, weak, data, kind, is_unique, aborted, dropCount,
                 freed, freedBy, strongOnes, weakOnes, uafPayload, initVal,
                 mutated, outlived>>
  /\ UNCHANGED <<retried, otherVars>>

\* variant: the loop does not return on an observed 0
UpgradeLoop_NoZeroCheck(t, spurious) ==
  /\ ~aborted /\ pc[t] = "up_loop"
  /\ IF FALSE
       THEN /\ ~spurious
            /\ pc' = [pc EXCEPT ![t] = "up_none"]
            /\ UNCHANGED <<strong, n, uafBlock>>
       ELSE /\ TouchBlock
            /\ IF strong = n[t] /\ ~spurious
                 THEN /\ strong' = WrapAdd(n[t], 1)
                      /\ pc' = [pc EXCEPT ![t] = "up_some"]
                      /\ UNCHANGED n
                 ELSE /\ n' = [n EXCEPT ![t] = strong]
                      /\ UNCHANGED <<strong, pc>>
  /\ UNCHANGED <<kind, weak, data, hnd, is_unique, aborted, dropCount, freed,
                 freedBy, strongOnes, weakOnes, uafPayload, quiet, keep,
                 initVal, mutated, outlived>>
  /\ retried' = [retried EXCEPT ![t] = @ \/ pc'[t] = "up_loop"]
  /\ UNCHANGED otherVars

\* variant: a failed compare-exchange returns None
UpgradeLoop_NoRetry(t, spurious) ==
  /\ ~aborted /\ pc[t] = "up_loop"
  /\ IF n[t] = 0
       THEN /\ ~spurious
            /\ pc' = [pc EXCEPT ![t] = "up_none"]
            /\ UNCHANGED <<strong, n, uafBlock>>
       ELSE /\ TouchBlock
            /\ IF strong = n[t] /\ ~spurious
                 THEN /\ strong' = WrapAdd(n[t], 1)
                      /\ pc' = [pc EXCEPT ![t] = "up_some"]
                      /\ UNCHANGED n
                 ELSE /\ pc' = [pc EXCEPT ![t] = "up_none"]
                      /\ UNCHANGED <<strong, n>>
  /\ UNCHANGED <<kind, weak, data, hnd, is_unique, aborted, dropCount, freed,
                 freedBy, strongOnes, weakOnes, uafPayload, quiet, keep,
                 initVal, mutated, outlived>>
  /\ retried' = [retried EXCEPT ![t] = @ \/ pc'[t] = "up_loop"]
  /\ UNCHANGED otherVars

\* one turn of the loop: return None on 0, else compare_exchange_weak;
\* spurious: the weak compare-exchange fails although the value matches
UpgradeLoop(t, spurious) ==
  /\ ~aborted /\ pc[t] = "up_loop"
  /\ IF n[t] = 0
       THEN /\ ~spurious
            /\ pc' = [pc EXCEPT ![t] = "up_none"]
            /\ UNCHANGED <<strong, n, uafBlock>>
       ELSE /\ TouchBlock
            /\ IF strong = n[t] /\ ~spurious
                 THEN /\ strong' = WrapAdd(n[t], 1)
                      /\ pc' = [pc EXCEPT ![t] = "up_some"]
                      /\ UNCHANGED n
                 ELSE /\ n' = [n EXCEPT ![t] = strong]
                      /\ UNCHANGED <<strong, pc>>
  /\ UNCHANGED <<kind, weak, data, hnd, is_unique, aborted, dropCount, freed,
                 freedBy, strongOnes, weakOnes, uafPayload, quiet, keep,
                 initVal, mutated, outlived>>
  /\ retried' = [retried EXCEPT ![t] = @ \/ pc'[t] = "up_loop"]
  /\ UNCHANGED otherVars

\* return Some(SafeArc { ptr }) or None; the &self borrow ends
UpgradeReturn(t) ==
  /\ ~aborted /\ pc[t] \in {"up_some", "up_none"}
  /\ kind' = IF pc[t] = "up_some"
              THEN [kind EXCEPT ![NewSlot] = "strong"] ELSE kind
  /\ pc' = [pc EXCEPT ![t] = "idle"]
  /\ hnd' = [hnd EXCEPT ![t] = 0]
  /\ n' = [n EXCEPT ![t] = 0]
  /\ keep' = [keep EXCEPT ![t] = FALSE]
  /\ UNCHANGED <<strong, weak, data, is_unique, aborted, dropCount, freed,
                 freedBy, strongOnes, weakOnes, uafBlock, uafPayload,
                 initVal, mutated, quiet, outlived>>
  /\ retried' = [retried EXCEPT ![t] = FALSE]
  /\ UNCHANGED otherVars

\* ---- SafeArc::get_mut (arc.rs 84-101) ----
\* variant: weak is compared with 1 but not locked
GetMutCas_NoSentinel(t, h) ==
  /\ ~aborted /\ pc[t] = "idle"
  /\ kind[h] = "strong" /\ ~Borrowed(h)
  /\ TouchBlock
  /\ IF weak = 1
       THEN /\ weak' = weak
            /\ pc' = [pc EXCEPT ![t] = "gm_load"]
       ELSE /\ pc' = [pc EXCEPT ![t] = "gm_none"]
            /\ UNCHANGED weak
  /\ hnd' = [hnd EXCEPT ![t] = h]
  /\ quiet' = [u \in Threads |-> u = t /\ AllIdleBut(t)]
  /\ UNCHANGED <<strong, data, kind, n, is_unique, aborted, dropCount, freed,
                 freedBy, strongOnes, weakOnes, uafPayload, keep, initVal,
                 mutated, outlived>>
  /\ UNCHANGED <<retried, otherVars>>

\* weak.compare_exchange(1, usize::MAX); return None if it fails
GetMutCas(t, h) ==
  /\ ~aborted /\ pc[t] = "idle"
  /\ kind[h] = "strong" /\ ~Borrowed(h)
  /\ TouchBlock
  /\ IF weak = 1
       THEN /\ weak' = UsizeMax
            /\ pc' = [pc EXCEPT ![t] = "gm_load"]
       ELSE /\ pc' = [pc EXCEPT ![t] = "gm_none"]
            /\ UNCHANGED weak
  /\ hnd' = [hnd EXCEPT ![t] = h]
  /\ quiet' = [u \in Threads |-> u = t /\ AllIdleBut(t)]
  /\ UNCHANGED <<strong, data, kind, n, is_unique, aborted, dropCount, freed,
                 freedBy, strongOnes, weakOnes, uafPayload, keep, initVal,
                 mutated, outlived>>
  /\ UNCHANGED <<retried, otherVars>>

\* variant: is_unique does not depend on strong
GetMutLoad_NoCompare(t) ==
  /\ ~aborted /\ pc[t] = "gm_load"
  /\ TouchBlock
  /\ is_unique' = [is_unique EXCEPT ![t] = TRUE]
  /\ pc' = [pc EXCEPT ![t] = "gm_store"]
  /\ UNCHANGED <<strong, weak, data, kind, hnd, n, aborted, dropCount, freed,
                 freedBy, strongOnes, weakOnes, uafPayload, quiet, keep,
                 initVal, mutated, outlived>>
  /\ UNCHANGED <<retried, otherVars>>

\* let is_unique = strong.load() == 1
GetMutLoad(t) ==
  /\ ~aborted /\ pc[t] = "gm_load"
  /\ TouchBlock
  /\ is_unique' = [is_unique EXCEPT ![t] = (strong = 1)]
  /\ pc' = [pc EXCEPT ![t] = "gm_store"]
  /\ UNCHANGED <<strong, weak, data, kind, hnd, n, aborted, dropCount, freed,
                 freedBy, strongOnes, weakOnes, uafPayload, quiet, keep,
                 initVal, mutated, outlived>>
  /\ UNCHANGED <<retried, otherVars>>

\* variant: the None path returns before the store
GetMutStore_NoRestoreOnNone(t) ==
  /\ ~aborted /\ pc[t] = "gm_store"
  /\ TouchBlock
  /\ weak' = IF is_unique[t] THEN 1 ELSE weak
  /\ pc' = [pc EXCEPT ![t] = IF is_unique[t] THEN "gm_some" ELSE "gm_none"]
  /\ is_unique' = [is_unique EXCEPT ![t] = FALSE]
  /\ UNCHANGED <<strong, data, kind, hnd, n, aborted, dropCount, freed,
                 freedBy, strongOnes, weakOnes, uafPayload, quiet, keep,
                 initVal, mutated, outlived>>
  /\ UNCHANGED <<retried, otherVars>>

\* weak.store(1); Some(&mut data) if is_unique, else None
GetMutStore(t) ==
  /\ ~aborted /\ pc[t] = "gm_store"
  /\ TouchBlock
  /\ weak' = 1
  /\ pc' = [pc EXCEPT ![t] = IF is_unique[t] THEN "gm_some" ELSE "gm_none"]
  /\ is_unique' = [is_unique EXCEPT ![t] = FALSE]
  /\ UNCHANGED <<strong, data, kind, hnd, n, aborted, dropCount, freed,
                 freedBy, strongOnes, weakOnes, uafPayload, quiet, keep,
                 initVal, mutated, outlived>>
  /\ UNCHANGED <<retried, otherVars>>

\* a write through the &mut T that get_mut returned
GetMutWrite(t, v) ==
  /\ ~aborted /\ pc[t] = "gm_some"
  /\ v # data
  /\ TouchPayload
  /\ data' = v
  /\ mutated' = TRUE
  /\ UNCHANGED <<strong, weak, kind, pc, hnd, n, is_unique, aborted,
                 dropCount, freed, freedBy, strongOnes, weakOnes, uafBlock,
                 quiet, keep, initVal, outlived>>
  /\ UNCHANGED <<retried, otherVars>>

\* the Option<&mut T> goes out of scope; the &mut borrow of the handle ends
GetMutRelease(t) ==
  /\ ~aborted /\ pc[t] \in {"gm_some", "gm_none"}
  /\ pc' = [pc EXCEPT ![t] = "idle"]
  /\ hnd' = [hnd EXCEPT ![t] = 0]
  /\ quiet' = [quiet EXCEPT ![t] = FALSE]
  /\ UNCHANGED <<strong, weak, data, kind, n, is_unique, aborted, dropCount,
                 freed, freedBy, strongOnes, weakOnes, uafBlock, uafPayload,
                 keep, initVal, mutated, outlived>>
  /\ UNCHANGED <<retried, otherVars>>

\* ---- SafeArc::downgrade (arc.rs 103-121) ----
\* let mut n = weak.load()
DowngradeLoad(t, h) ==
  /\ ~aborted /\ pc[t] = "idle"
  /\ kind[h] = "strong" /\ ~Borrowed(h) /\ CanMint
  /\ TouchBlock
  /\ n' = [n EXCEPT ![t] = weak]
  /\ pc' = [pc EXCEPT ![t] = "dg_loop"]
  /\ hnd' = [hnd EXCEPT ![t] = h]
  /\ Begin(t)
  /\ UNCHANGED <<strong, weak, data, kind, is_unique, aborted, dropCount,
                 freed, freedBy, strongOnes, weakOnes, uafPayload, keep,
                 initVal, mutated, outlived>>
  /\ UNCHANGED <<retried, otherVars>>

\* variant: on the sentinel the loop goes round without reloading weak
DowngradeLoop_NoReload(t) ==
  /\ ~aborted /\ pc[t] = "dg_loop"
  /\ TouchBlock
  /\ IF n[t] # UsizeMax /\ weak = n[t]
       THEN /\ weak' = WrapAdd(n[t], 1)
            /\ kind' = [kind EXCEPT ![NewSlot] = "weak"]
            /\ pc' = [pc EXCEPT ![t] = "idle"]
            /\ hnd' = [hnd EXCEPT ![t] = 0]
            /\ n' = [n EXCEPT ![t] = 0]
       ELSE /\ n' = [n EXCEPT ![t] = IF n[t] = UsizeMax THEN n[t] ELSE weak]
            /\ UNCHANGED <<weak, kind, pc, hnd>>
  /\ UNCHANGED <<strong, data, is_unique, aborted, dropCount, freed, freedBy,
                 strongOnes, weakOnes, uafPayload, quiet, keep, initVal,
                 mutated, outlived>>
  /\ UNCHANGED <<retried, otherVars>>

\* variant: the sentinel is not tested before the compare_exchange
DowngradeLoop_NoSpin(t) ==
  /\ ~aborted /\ pc[t] = "dg_loop"
  /\ TouchBlock
  /\ IF weak = n[t]
       THEN /\ weak' = WrapAdd(n[t], 1)
            /\ kind' = [kind EXCEPT ![NewSlot] = "weak"]
            /\ pc' = [pc EXCEPT ![t] = "idle"]
            /\ hnd' = [hnd EXCEPT ![t] = 0]
            /\ n' = [n EXCEPT ![t] = 0]
       ELSE /\ n' = [n EXCEPT ![t] = weak]
            /\ UNCHANGED <<weak, kind, pc, hnd>>
  /\ UNCHANGED <<strong, data, is_unique, aborted, dropCount, freed, freedBy,
                 strongOnes, weakOnes, uafPayload, quiet, keep, initVal,
                 mutated, outlived>>
  /\ UNCHANGED <<retried, otherVars>>

\* one turn of the loop: reload on the sentinel, else compare_exchange;
\* on success return Weak { ptr }
DowngradeLoop(t) ==
  /\ ~aborted /\ pc[t] = "dg_loop"
  /\ TouchBlock
  /\ IF n[t] # UsizeMax /\ weak = n[t]
       THEN /\ weak' = WrapAdd(n[t], 1)
            /\ kind' = [kind EXCEPT ![NewSlot] = "weak"]
            /\ pc' = [pc EXCEPT ![t] = "idle"]
            /\ hnd' = [hnd EXCEPT ![t] = 0]
            /\ n' = [n EXCEPT ![t] = 0]
       ELSE /\ n' = [n EXCEPT ![t] = weak]
            /\ UNCHANGED <<weak, kind, pc, hnd>>
  /\ UNCHANGED <<strong, data, is_unique, aborted, dropCount, freed, freedBy,
                 strongOnes, weakOnes, uafPayload, quiet, keep, initVal,
                 mutated, outlived>>
  /\ UNCHANGED <<retried, otherVars>>

\* ---- impl Deref for SafeArc (arc.rs 124-130) ----
\* &self.data().data: the handle is borrowed while the &T is in use
Deref(t, h) ==
  /\ ~aborted /\ pc[t] = "idle"
  /\ kind[h] = "strong" /\ ~ExclBorrowed(h)
  /\ TouchBlock
  /\ pc' = [pc EXCEPT ![t] = "deref"]
  /\ hnd' = [hnd EXCEPT ![t] = h]
  /\ Begin(t)
  /\ UNCHANGED <<strong, weak, data, kind, n, is_unique, aborted, dropCount,
                 freed, freedBy, strongOnes, weakOnes, uafPayload, keep,
                 initVal, mutated, outlived>>
  /\ UNCHANGED <<retried, otherVars>>

\* the payload is read through the &T, which then goes out of scope
DerefRead(t) ==
  /\ ~aborted /\ pc[t] = "deref"
  /\ TouchPayload
  /\ pc' = [pc EXCEPT ![t] = "idle"]
  /\ hnd' = [hnd EXCEPT ![t] = 0]
  /\ UNCHANGED <<strong, weak, data, kind, n, is_unique, aborted, dropCount,
                 freed, freedBy, strongOnes, weakOnes, uafBlock, quiet, keep,
                 initVal, mutated, outlived>>
  /\ UNCHANGED <<retried, otherVars>>
Next ==
  \/ \E t \in Threads, h \in Handles : CloneLoad(t, h)
  \/ \E t \in Threads : CloneAdd(t)
  \/ \E t \in Threads, h \in Handles : DropFetchSub(t, h)
  \/ \E t \in Threads : DropDestroy(t)
  \/ \E t \in Threads : DropReleaseWeak(t)
  \/ \E t \in Threads : DropFree(t)
  \/ \E t \in Threads, h \in Handles : WeakDropFetchSub(t, h)
  \/ \E t \in Threads : WeakDropFree(t)
  \/ \E t \in Threads, h \in Handles : WeakClone(t, h)
  \/ \E t \in Threads, h \in Handles : UpgradeLoad(t, h)
  \/ \E t \in Threads, b \in BOOLEAN : UpgradeLoop(t, b)
  \/ \E t \in Threads : UpgradeReturn(t)
  \/ \E t \in Threads, h \in Handles : GetMutCas(t, h)
  \/ \E t \in Threads : GetMutLoad(t)
  \/ \E t \in Threads : GetMutStore(t)
  \/ \E t \in Threads, v \in Values : GetMutWrite(t, v)
  \/ \E t \in Threads : GetMutRelease(t)
  \/ \E t \in Threads, h \in Handles : DowngradeLoad(t, h)
  \/ \E t \in Threads : DowngradeLoop(t)
  \/ \E t \in Threads, h \in Handles : Deref(t, h)
  \/ \E t \in Threads : DerefRead(t)

Spec == Init /\ [][Next]_vars

\* the same operations on a block whose strong counter may be near the
\* limit that clone tests
SpecOverflow == InitLeaked /\ [][Next]_vars

\* the steps of an operation of thread t after its first one
Continue(t) ==
  \/ CloneAdd(t)
  \/ DropDestroy(t) \/ DropReleaseWeak(t) \/ DropFree(t)
  \/ WeakDropFree(t)
  \/ (\E b \in BOOLEAN : UpgradeLoop(t, b)) \/ UpgradeReturn(t)
  \/ GetMutLoad(t) \/ GetMutStore(t) \/ GetMutRelease(t)
  \/ DowngradeLoop(t)
  \/ DerefRead(t)

\* the first step of an operation of thread t
OpStart(t) ==
  \E h \in Handles :
    \/ CloneLoad(t, h) \/ DropFetchSub(t, h) \/ WeakDropFetchSub(t, h)
    \/ WeakClone(t, h) \/ UpgradeLoad(t, h) \/ GetMutCas(t, h)
    \/ DowngradeLoad(t, h) \/ Deref(t, h)

\* fair scheduling: a thread inside an operation keeps taking steps
SpecFair == Init /\ [][Next]_vars /\ \A t \in Threads : WF_vars(Continue(t))

TypeOK ==
  /\ strong \in 0..UsizeMax
  /\ weak \in 0..UsizeMax
  /\ data \in Values \cup {Poison}
  /\ kind \in [Handles -> {"none", "strong", "weak"}]
  /\ hnd \in [Threads -> Handles \cup {0}]
  /\ n \in [Threads -> 0..UsizeMax]
  /\ retried \in [Threads -> BOOLEAN]

AllIdle == \A t \in Threads : pc[t] = "idle"

(***************************************************************************)
(* The claims                                                              *)
(***************************************************************************)

\* C1: a get_mut that runs while no other thread runs an operation returns
\* Some exactly when one strong and no weak handle is live, which is
\* when strong = 1 and weak = 1; with one strong and one weak handle, or
\* with two strong handles, it returns None.
C1_GetMutIffSoleHandle ==
  \A t \in Threads :
    (quiet[t] /\ pc[t] \in {"gm_some", "gm_none"}) =>
      /\ (pc[t] = "gm_some") <=> (NumStrong = 1 /\ NumWeak = 0)
      /\ (pc[t] = "gm_some") <=> (strong = 1 /\ weak = 1)

C1_Witness ==
  \E t \in Threads : quiet[t] /\ pc[t] = "gm_some" /\ kind[1] = "none"

\* C2: under every interleaving, while a thread holds the Some(&mut T) of
\* get_mut its handle is the only live handle, strong or weak, no other
\* thread is inside any operation of the block, and so no handle can be
\* minted before the reference is given up.
C2_GetMutExclusive ==
  \A t \in Threads :
    pc[t] = "gm_some" =>
      /\ kind[hnd[t]] = "strong"
      /\ NumStrong = 1 /\ NumWeak = 0
      /\ strong = 1 /\ weak = 1
      /\ Minting = 0
      /\ AllIdleBut(t)

C2_Witness ==
  \E t \in Threads : pc[t] = "gm_some" /\ ~quiet[t] /\ mutated

\* C3: the payload destructor runs at most once, it has run exactly once as
\* soon as every strong handle is dropped, and it is run by the one drop
\* whose fetch_sub on strong returned 1.
C3_DestructorOnce ==
  /\ dropCount <= 1
  /\ strongOnes <= 1
  /\ dropCount + Cardinality({t \in Threads : pc[t] = "sd_destroy"})
       = strongOnes
  /\ (NumStrong = 0 /\ \A t \in Threads : pc[t] \notin {"sd_destroy", "up_some"})
       => dropCount = 1

C3_Witness ==
  /\ dropCount = 1 /\ NumStrong = 0 /\ NumWeak = 0
  /\ \E t \in Threads : pc[t] = "sd_weak"

\* C4: while a strong handle is live the payload is neither destroyed nor
\* freed, and a deref through it reads the value passed to new (the payload
\* not having been written through get_mut).
C4_PayloadAliveWhileStrong ==
  NumStrong >= 1 =>
    /\ dropCount = 0 /\ strongOnes = 0 /\ freed = 0
    /\ data # Poison
    /\ ~mutated => data = initVal
    /\ ~uafPayload

C4_Witness ==
  /\ kind[1] = "none" /\ NumStrong = 1 /\ ~mutated /\ data = initVal
  /\ \E t \in Threads : pc[t] = "deref"

\* C5: the block is freed at most once, only by a releaser whose fetch_sub
\* on weak returned 1, of which there is at most one; once every handle is
\* dropped and every drop has returned, it has been freed exactly once.
C5_FreedOnce ==
  /\ freed <= 1
  /\ weakOnes <= 1
  /\ freed + Cardinality({t \in Threads : pc[t] \in {"sd_free", "wd_free"}})
       = weakOnes
  /\ (NumStrong = 0 /\ NumWeak = 0 /\ AllIdle) => freed = 1

C5_Witness ==
  freed = 1 /\ freedBy = "strong" /\ AllIdle /\ weakOnes = 1

\* C6: weak = 0 only when no strong and no weak handle is live, and nothing
\* reads or writes the counters or the payload of a freed block: once it is
\* freed no operation is in progress and none can start.
C6_NoUseAfterFree ==
  /\ weak = 0 => (NumStrong = 0 /\ NumWeak = 0)
  /\ freed > 0 => (weak = 0 /\ AllIdle)
  /\ ~uafBlock
  /\ ~uafPayload

C6_Witness ==
  freed = 1 /\ weak = 0 /\ freedBy = "weak"

\* C7: once strong is 0 it stays 0 and no strong handle is minted: an
\* upgrade cannot return Some any more although weak handles are live; and
\* an upgrade that returns Some holds a count of a payload whose
\* destruction has not begun.
C7_NoResurrection ==
  /\ [](\A t \in Threads :
          pc[t] = "up_some" =>
            (strong >= 1 /\ strongOnes = 0 /\ dropCount = 0))
  /\ [][strong = 0 =>
          /\ strong' = 0
          /\ \A t \in Threads : pc'[t] # "up_some"
          /\ \A h \in Handles : kind'[h] = "strong" => kind[h] = "strong"]_vars

C7_Witness ==
  \E t \in Threads :
    pc[t] = "up_none" /\ strong = 0 /\ NumWeak >= 1 /\ dropCount = 1

\* C8: an upgrade during which a strong handle was live at every moment
\* does not return None; it returns None only on an observed 0, never on a
\* failed compare-exchange, and its successful compare-exchange raises
\* strong by exactly one.
C8_UpgradeSucceedsWhileStrong ==
  /\ [](\A t \in Threads : pc[t] = "up_none" => ~keep[t])
  /\ [][\A t \in Threads :
          /\ (pc[t] = "up_loop" /\ pc'[t] = "up_some") => strong' = strong + 1
          /\ (pc[t] = "up_loop" /\ pc'[t] = "up_none") =>
               (n[t] = 0 /\ strong' = strong)]_vars

C8_Witness ==
  \E t \in Threads : pc[t] = "up_some" /\ keep[t] /\ strong = 2 /\ NumStrong = 1

\* C9: when the last strong drop releases its unit while weak handles are
\* live, the payload is destroyed and the block is not freed by that drop;
\* the block stays allocated as long as a weak handle is live and is freed
\* by the drop of the last weak handle.
C9_BlockOutlivesPayload ==
  /\ NumWeak >= 1 => freed = 0
  /\ outlived => (dropCount = 1 /\ freedBy # "strong")
  /\ (outlived /\ NumWeak = 0 /\ AllIdle) => (freed = 1 /\ freedBy = "weak")

C9_Witness ==
  outlived /\ freed = 1 /\ freedBy = "weak" /\ dropCount = 1

\* C10: in every reachable state, strong > 0 implies weak >= 1.
C10_StrongImpliesWeak ==
  strong > 0 => weak >= 1

C10_Witness ==
  /\ strong = 1 /\ weak = 2 /\ NumStrong = 0
  /\ \E t \in Threads : pc[t] = "up_some"

\* C11: no clone produces a handle when the value of strong just before
\* its fetch_add exceeds UsizeMax \div 2: it aborts instead, also when
\* several threads clone the block at once.
C11_CloneAbortsAboveHalf ==
  [][\A t \in Threads :
       (pc[t] = "cl_add" /\ pc'[t] = "idle") => strong <= UsizeMax \div 2]_vars

SawSentinel(t) == pc[t] = "dg_loop" /\ n[t] = UsizeMax

\* downgrade leaves its loop only by a compare_exchange that takes weak from
\* a value other than the sentinel to that value plus one, and with a Weak
DowngradeReturnsIncremented ==
  [][\A t \in Threads :
       (pc[t] = "dg_loop" /\ pc'[t] # "dg_loop")
         => /\ weak # UsizeMax /\ weak' = weak + 1
            /\ pc'[t] = "idle"
            /\ NumWeak' = NumWeak + 1]_vars

\* C12 as stated: a downgrade that has observed the sentinel never fails and
\* never returns without incrementing weak, and under fair scheduling it
\* eventually increments weak and returns.
C12_DowngradeEventuallyReturns ==
  /\ DowngradeReturnsIncremented
  /\ \A t \in Threads : SawSentinel(t) ~> (pc[t] # "dg_loop")

\* C12 amended: a downgrade that has observed the sentinel never fails and
\* never returns without incrementing weak, and under fair scheduling it
\* eventually increments weak and returns, provided the other threads start
\* only finitely many operations.
C12_DowngradeReturnsWhenOthersStop ==
  /\ DowngradeReturnsIncremented
  /\ \A t \in Threads :
       (<>[][\A u \in Threads \ {t} : ~OpStart(u)]_vars)
         => (SawSentinel(t) ~> (pc[t] # "dg_loop"))

\* a downgrade holds the sentinel it loaded and get_mut has stored 1
C12_Witness ==
  \E t \in Threads : SawSentinel(t) /\ weak = 1

\* ======== channel.rs: Channel<T> and test_channel_threads ========
\* the block of arc.rs is not part of the other primitives' runs
ArcOff == strong = 1 /\ InitRest /\ initVal = 1

\* MaybeUninit::uninit(): no message in the slot; a read of it may give
\* anything
Uninit == 0
\* the messages a test may send
Msgs == 1..NumMsgs
AnyBits == Msgs \cup {Uninit}

\* Channel::new, and the two threads of the test before they run; the
\* sender will send chan.sent
ChannelNew(m, s0, r0) ==
  [ready |-> FALSE, message |-> Uninit,
   sent |-> m, got |-> Uninit,
   spc |-> s0, rpc |-> r0,
   token |-> FALSE,      \* the park token of the receiving thread
   round |-> 1,          \* how many times the channel was split
   panicked |-> FALSE]

InitChannel ==
  /\ ArcOff /\ sq = <<>> /\ sv = <<>> /\ sem = <<>>
  /\ \E m \in Msgs : chan = ChannelNew(m, "swap", "is_ready")

ChanStep == ~chan.panicked /\ UNCHANGED <<arcVars, sq, sv, sem>>

\* Channel::send, line 22: ready.swap(true), panic if it was set
ChannelSendSwap ==
  /\ ChanStep /\ chan.spc = "swap"
  /\ chan' = [chan EXCEPT !.ready = TRUE,
                          !.spc = IF chan.ready THEN "panic" ELSE "write",
                          !.panicked = chan.ready]

\* Channel::send, line 26: the message is written into the slot
ChannelSendWrite ==
  /\ ChanStep /\ chan.spc = "write"
  /\ chan' = [chan EXCEPT !.message = chan.sent, !.spc = "unpark"]

\* thread.unpark() of the sender thread
ChannelUnpark ==
  /\ ChanStep /\ chan.spc = "unpark"
  /\ chan' = [chan EXCEPT !.token = TRUE, !.spc = "done"]

\* while !channel.is_ready()
ChannelIsReady ==
  /\ ChanStep /\ chan.rpc = "is_ready"
  /\ chan' = [chan EXCEPT !.rpc = IF chan.ready THEN "swap" ELSE "park"]

\* thread::park(): returns when the token is set, or spuriously
ChannelPark(spurious) ==
  /\ ChanStep /\ chan.rpc = "park"
  /\ chan.token \/ spurious
  /\ chan' = [chan EXCEPT !.token = FALSE, !.rpc = "is_ready"]

\* Channel::receive, line 31: ready.swap(false), panic if it was not set
ChannelReceiveSwap ==
  /\ ChanStep /\ chan.rpc = "swap"
  /\ chan' = [chan EXCEPT !.ready = FALSE,
                          !.rpc = IF chan.ready THEN "read" ELSE "panic",
                          !.panicked = ~chan.ready]

\* Channel::receive, line 34: assume_init_read of the slot
ChannelReceiveRead ==
  /\ ChanStep /\ chan.rpc = "read"
  /\ \E bits \in AnyBits :
       /\ chan.message # Uninit => bits = chan.message
       /\ chan' = [chan EXCEPT !.got = bits, !.rpc = "done"]

NextChannel ==
  \/ ChannelSendSwap
  \/ ChannelSendWrite
  \/ ChannelUnpark
  \/ ChannelIsReady
  \/ \E spurious \in BOOLEAN : ChannelPark(spurious)
  \/ ChannelReceiveSwap
  \/ ChannelReceiveRead

SpecChannel == InitChannel /\ [][NextChannel]_vars

\* C13: in the threaded test, once is_ready() has returned true receive()
\* returns exactly the message passed to send(), and the receiver never
\* reads the slot before the sender's write has completed.
C13_ReceiveReturnsSent ==
  /\ [](chan.rpc = "done" => chan.got = chan.sent)
  /\ [][(chan.rpc = "read" /\ chan'.rpc = "done")
          => chan.spc \in {"unpark", "done"}]_vars

\* ======== channel_split.rs: Sender / Receiver and test_channel_thread ========
InitSplit ==
  /\ ArcOff /\ sq = <<>> /\ sv = <<>> /\ sem = <<>>
  /\ \E m \in Msgs : chan = ChannelNew(m, "write", "swap")

\* Sender::send, line 54: the message is written into the slot
SplitSendWrite ==
  /\ ChanStep /\ chan.spc = "write"
  /\ chan' = [chan EXCEPT !.message = chan.sent, !.spc = "store"]

\* Sender::send, lines 55-57: ready.store(true, Release)
SplitSendStore ==
  /\ ChanStep /\ chan.spc = "store"
  /\ chan' = [chan EXCEPT !.ready = TRUE, !.spc = "unpark"]

\* variant: send does not unpark the receiving thread
SplitSendUnpark_NoUnpark ==
  /\ ChanStep /\ chan.spc = "unpark"
  /\ chan' = [chan EXCEPT !.spc = "done"]

\* Sender::send, line 58: recv_thread.unpark()
SplitSendUnpark ==
  /\ ChanStep /\ chan.spc = "unpark"
  /\ chan' = [chan EXCEPT !.token = TRUE, !.spc = "done"]

\* variant: receive goes on to read whatever the flag was
SplitReceiveSwap_IgnoresFlag ==
  /\ ChanStep /\ chan.rpc = "swap"
  /\ chan' = [chan EXCEPT !.ready = FALSE, !.rpc = "read"]

\* Receiver::receive, lines 75-79: while !ready.swap(false, Acquire)
SplitReceiveSwap ==
  /\ ChanStep /\ chan.rpc = "swap"
  /\ chan' = [chan EXCEPT !.ready = FALSE,
                          !.rpc = IF chan.ready THEN "read" ELSE "park"]

\* Receiver::receive, line 80: thread::park(), which returns when the token
\* is set, or spuriously
SplitReceivePark(spurious) ==
  /\ ChanStep /\ chan.rpc = "park"
  /\ chan.token \/ spurious
  /\ chan' = [chan EXCEPT !.token = FALSE, !.rpc = "swap"]

\* Receiver::receive, line 82: assume_init_read of the slot
SplitReceiveRead ==
  /\ ChanStep /\ chan.rpc = "read"
  /\ \E bits \in AnyBits :
       /\ chan.message # Uninit => bits = chan.message
       /\ chan' = [chan EXCEPT !.got = bits, !.rpc = "done"]

\* the scope has joined the sender and the test returns: Channel::drop
\* drops the message if the flag is still set
SplitChannelDrop ==
  /\ ChanStep /\ chan.rpc = "done" /\ chan.spc = "done"
  /\ chan' = [chan EXCEPT !.rpc = "dropped",
                          !.message = IF chan.ready THEN Uninit ELSE @]

\* the Sender and the Receiver are gone and the channel is split again:
\* *self = Self::new() drops the old channel; the thread keeps its token
SplitAgain(m) ==
  /\ ChanStep /\ chan.rpc = "done" /\ chan.spc = "done"
  /\ chan.round < MaxRounds
  /\ chan' = [ChannelNew(m, "write", "swap") EXCEPT
               !.token = chan.token, !.round = chan.round + 1]

NextSplit ==
  \/ SplitSendWrite
  \/ SplitSendStore
  \/ SplitSendUnpark
  \/ SplitReceiveSwap
  \/ \E spurious \in BOOLEAN : SplitReceivePark(spurious)
  \/ SplitReceiveRead
  \/ SplitChannelDrop
  \/ \E m \in Msgs : SplitAgain(m)

SpecSplit == InitSplit /\ [][NextSplit]_vars

\* C14: receive() returns exactly the value passed to send(): the message is
\* in the slot when ready is set, and receive reads the slot only after
\* its swap took ready from true to false.
C14_SplitReceiveReturnsSent ==
  /\ [](chan.rpc \in {"done", "dropped"} => chan.got = chan.sent)
  /\ [][(chan'.ready /\ ~chan.ready) => chan.message = chan.sent]_vars
  /\ [][(chan'.rpc = "read" /\ chan.rpc # "read")
          => (chan.ready /\ ~chan'.ready /\ chan.message = chan.sent)]_vars

\* in the last round the receiver has its message before the sender has
\* called unpark
C14_Witness ==
  /\ chan.rpc = "done" /\ chan.got = chan.sent /\ chan.spc = "unpark"
  /\ chan.round = MaxRounds

\* ======== bounded_queue.rs: SharedQueue and test_bounded_queue ========
\* const CAPACITY
CAPACITY == 5

Producers == {"producer_1", "producer_2"}
\* the consumer of the test, and a second one that other clients may run
Consumers == {"consumer", "consumer_2"}
QThreads  == Producers \cup Consumers

\* the `loops` argument of thread t
LoopsOf(t) == sq.loops[t]

\* the arguments in test_bounded_queue, which runs one consumer
TestLoops ==
  [t \in QThreads |->
     IF t \in Producers THEN Loops
     ELSE IF t = "consumer" THEN Loops * Cardinality(Producers)
     ELSE 0]

\* SharedQueue::new behind the Arc, and threads running producer() and
\* consumer() with the arguments l
SharedQueueNew(l) ==
  [buffer |-> [k \in 0..(CAPACITY - 1) |-> 0],
   producer |-> 0,           \* BoundedQueue.producer
   consumer |-> 0,           \* BoundedQueue.consumer
   mutex |-> "free",         \* the thread inside queue.lock()
   producer_sem |-> CAPACITY,
   consumer_sem |-> 0,
   loops |-> l,
   pc |-> [t \in QThreads |-> IF l[t] = 0 THEN "done" ELSE "acquire"],
   i |-> [t \in QThreads |-> 0],
   value |-> 0,              \* the last value a consumer read
   puts |-> 0,               \* calls of put that returned
   gets |-> 0,               \* calls of get that returned
   full |-> [k \in 0..(CAPACITY - 1) |-> FALSE]]  \* put and not yet got

InitQueue ==
  /\ ArcOff /\ chan = <<>> /\ sv = <<>> /\ sem = <<>>
  /\ sq = SharedQueueNew(TestLoops)

\* any set of producer and consumer threads, each of Loops turns
InitQueueAny ==
  /\ ArcOff /\ chan = <<>> /\ sv = <<>> /\ sem = <<>>
  /\ \E l \in [QThreads -> {0, Loops}] : sq = SharedQueueNew(l)

QueueStep == UNCHANGED <<arcVars, chan, sv, sem>>

\* the end of one turn of the for loop of thread t
NextTurn(t) ==
  [sq.pc EXCEPT ![t] = IF sq.i[t] + 1 = LoopsOf(t) THEN "done" ELSE "acquire"]

\* variant: the producer takes a permit without waiting for one
ProducerAcquire_NoWait(t) ==
  /\ QueueStep /\ t \in Producers /\ sq.pc[t] = "acquire"
  /\ sq' = [sq EXCEPT !.producer_sem = @ - 1, !.pc[t] = "lock"]

\* shared_queue.producer.acquire(): waits for a permit and takes it
ProducerAcquire(t) ==
  /\ QueueStep /\ t \in Producers /\ sq.pc[t] = "acquire"
  /\ sq.producer_sem > 0
  /\ sq' = [sq EXCEPT !.producer_sem = @ - 1, !.pc[t] = "lock"]

\* shared_queue.queue.lock(): waits for the mutex
ProducerLock(t) ==
  /\ QueueStep /\ t \in Producers /\ sq.pc[t] = "lock"
  /\ sq.mutex = "free"
  /\ sq' = [sq EXCEPT !.mutex = t, !.pc[t] = "put"]

\* BoundedQueue::put(i) under the guard, which is dropped with the statement
ProducerPut(t) ==
  /\ QueueStep /\ t \in Producers /\ sq.pc[t] = "put"
  /\ sq' = [sq EXCEPT !.buffer[sq.producer] = sq.i[t],
                      !.full[sq.producer] = TRUE,
                      !.puts = @ + 1,
                      !.producer = (sq.producer + 1) % CAPACITY,
                      !.mutex = "free",
                      !.pc[t] = "release"]

\* shared_queue.consumer.release(), then the next turn of the loop
ProducerRelease(t) ==
  /\ QueueStep /\ t \in Producers /\ sq.pc[t] = "release"
  /\ sq' = [sq EXCEPT !.consumer_sem = @ + 1,
                      !.i[t] = @ + 1,
                      !.pc = NextTurn(t)]

\* shared_queue.consumer.acquire(): waits for a permit and takes it
ConsumerAcquire(t) ==
  /\ QueueStep /\ t \in Consumers /\ sq.pc[t] = "acquire"
  /\ sq.consumer_sem > 0
  /\ sq' = [sq EXCEPT !.consumer_sem = @ - 1, !.pc[t] = "lock"]

\* shared_queue.queue.lock(): waits for the mutex
ConsumerLock(t) ==
  /\ QueueStep /\ t \in Consumers /\ sq.pc[t] = "lock"
  /\ sq.mutex = "free"
  /\ sq' = [sq EXCEPT !.mutex = t, !.pc[t] = "get"]

\* BoundedQueue::get() under the guard, which is dropped with the statement
ConsumerGet(t) ==
  /\ QueueStep /\ t \in Consumers /\ sq.pc[t] = "get"
  /\ sq' = [sq EXCEPT !.value = sq.buffer[sq.consumer],
                      !.full[sq.consumer] = FALSE,
                      !.gets = @ + 1,
                      !.consumer = (sq.consumer + 1) % CAPACITY,
                      !.mutex = "free",
                      !.pc[t] = "release"]

\* variant: the consumer does not give the permit back to the producers
ConsumerRelease_NoRelease(t) ==
  /\ QueueStep /\ t \in Consumers /\ sq.pc[t] = "release"
  /\ sq' = [sq EXCEPT !.i[t] = @ + 1,
                      !.pc = NextTurn(t)]

\* shared_queue.producer.release(), then the next turn of the loop
ConsumerRelease(t) ==
  /\ QueueStep /\ t \in Consumers /\ sq.pc[t] = "release"
  /\ sq' = [sq EXCEPT !.producer_sem = @ + 1,
                      !.i[t] = @ + 1,
                      !.pc = NextTurn(t)]

\* the steps of thread t
QueueThread(t) ==
  \/ ProducerAcquire(t) \/ ProducerLock(t) \/ ProducerPut(t)
  \/ ProducerRelease(t)
  \/ ConsumerAcquire(t) \/ ConsumerLock(t) \/ ConsumerGet(t)
  \/ ConsumerRelease(t)

NextQueue ==
  \/ \E t \in QThreads : ProducerAcquire(t)
  \/ \E t \in QThreads : ProducerLock(t)
  \/ \E t \in QThreads : ProducerPut(t)
  \/ \E t \in QThreads : ProducerRelease(t)
  \/ \E t \in QThreads : ConsumerAcquire(t)
  \/ \E t \in QThreads : ConsumerLock(t)
  \/ \E t \in QThreads : ConsumerGet(t)
  \/ \E t \in QThreads : ConsumerRelease(t)

\* a thread that can take a step is scheduled; a thread waiting for a permit
\* or for the mutex is woken when it is there to take
SpecQueue ==
  InitQueue /\ [][NextQueue]_vars /\ \A t \in QThreads : WF_vars(QueueThread(t))

\* C15: with two producers of Loops turns each and one consumer of twice as
\* many turns on one SharedQueue, every run ends with all three threads
\* finished: none blocks forever.
C15_AllThreadsFinish ==
  <>(\A t \in QThreads : sq.pc[t] = "done")

\* the queue is full and a producer waits for the consumer, which has taken
\* a value and not yet released the permit
C15_Witness ==
  /\ sq.producer_sem = 0
  /\ \E t \in Producers : sq.pc[t] = "acquire"
  /\ sq.pc["consumer"] = "release"
  /\ sq.loops = TestLoops
  /\ (sq.producer - sq.consumer) % CAPACITY = CAPACITY - 1

\* ======== safe_vec.rs: SafeVec<T> ========
\* the cell at index i of the allocation; a cell outside it holds anything
Cell(buf, i) == IF i < Len(buf) THEN {buf[i + 1]} ELSE AnyBits

\* SafeVec::new(capacity): an allocation of `capacity` uninitialized cells
InitVec ==
  /\ ArcOff /\ chan = <<>> /\ sq = <<>> /\ sem = <<>>
  /\ \E c \in 0..MaxCap :
       sv = [ptr |-> [k \in 1..c |-> Uninit],  \* the cells ptr points to
             len |-> 0,
             capacity |-> c,
             pushed |-> <<>>,      \* the elements pushed and not yet popped
             pushes |-> 0,         \* calls of push that returned
             pops |-> 0,           \* calls of pop that returned
             op |-> "new",         \* the last call
             ret |-> Uninit,       \* what the last get or pop returned
             expect |-> Uninit,    \* what it returns by the pushes before it
             panicked |-> FALSE]

VecStep == ~sv.panicked /\ UNCHANGED <<arcVars, chan, sq, sem>>

\* SafeVec::reallocate: the capacity is doubled and the first len cells of
\* the old allocation are copied into the new one
Reallocate(ptr, len, capacity, copy) ==
  [k \in 1..(capacity * 2) |-> IF k <= len THEN copy[k] ELSE Uninit]

\* what the copy loop of reallocate may read from the old allocation
Copies(ptr, len) ==
  {c \in [1..len -> AnyBits] : \A k \in 1..len : c[k] \in Cell(ptr, k - 1)}

\* SafeVec::push(elem), with the reallocation it calls when len == capacity;
\* a write past the allocation leaves the allocation as it is
Push(elem) ==
  /\ VecStep /\ sv.pushes < MaxPushes
  /\ \E copy \in Copies(sv.ptr, sv.len) :
       LET grow == sv.len = sv.capacity
           cap  == IF grow THEN sv.capacity * 2 ELSE sv.capacity
           ptr  == IF grow THEN Reallocate(sv.ptr, sv.len, sv.capacity, copy)
                           ELSE sv.ptr
       IN  sv' = [sv EXCEPT
                    !.capacity = cap,
                    !.ptr = IF sv.len < cap
                              THEN [ptr EXCEPT ![sv.len + 1] = elem]
                              ELSE ptr,
                    !.len = @ + 1,
                    !.pushed = Append(@, elem),
                    !.pushes = @ + 1,
                    !.op = "push"]

\* SafeVec::pop: panics on an empty vector, else reads the last cell
Pop ==
  /\ VecStep
  /\ IF sv.len = 0
       THEN sv' = [sv EXCEPT !.panicked = TRUE, !.op = "pop"]
       ELSE \E bits \in Cell(sv.ptr, sv.len - 1) :
              sv' = [sv EXCEPT
                       !.len = @ - 1,
                       !.ret = bits,
                       !.expect = sv.pushed[Len(sv.pushed)],
                       !.pushed = SubSeq(@, 1, Len(@) - 1),
                       !.pops = @ + 1,
                       !.op = "pop"]

\* SafeVec::get(index): panics on an empty vector or an index >= len
Get(index) ==
  /\ VecStep
  /\ IF sv.len = 0 \/ index >= sv.len
       THEN sv' = [sv EXCEPT !.panicked = TRUE, !.op = "get"]
       ELSE \E bits \in Cell(sv.ptr, index) :
              sv' = [sv EXCEPT
                       !.ret = bits,
                       !.expect = sv.pushed[index + 1],
                       !.op = "get"]

NextVec ==
  \/ \E elem \in Values : Push(elem)
  \/ Pop
  \/ \E index \in 0..MaxPushes : Get(index)

SpecVec == InitVec /\ [][NextVec]_vars

\* C16: for any sequence of pushes on a SafeVec, reallocations included,
\* the elements are preserved: get(i) returns the i-th pushed element, len is
\* the number of pushes minus the number of pops, and pops return the
\* elements in reverse push order.
C16_ElementsPreserved ==
  ~sv.panicked =>
    /\ sv.len = sv.pushes - sv.pops
    /\ sv.op \in {"get", "pop"} => sv.ret = sv.expect
    /\ \A i \in 0..(sv.len - 1) : Cell(sv.ptr, i) = {sv.pushed[i + 1]}

\* C17: new leaves strong = 1 and weak = 1, and whenever no operation is
\* in progress strong is the number of live strong handles and weak the
\* number of live weak handles, plus one while a strong handle is live.
C17_CountersCountHandles ==
  AllIdle =>
    /\ strong = NumStrong
    /\ weak = NumWeak + (IF NumStrong > 0 THEN 1 ELSE 0)

C17_Witness ==
  AllIdle /\ NumStrong = 0 /\ NumWeak = 2 /\ weak = 2

\* C18: weak holds the sentinel exactly while one get_mut is between its
\* successful compare-exchange and its store; at most one get_mut is there
\* at a time, and only that compare-exchange, from 1, writes the sentinel.
InWindow == {t \in Threads : pc[t] \in {"gm_load", "gm_store"}}

C18_SentinelOnlyInGetMut ==
  /\ [](/\ Cardinality(InWindow) <= 1
        /\ (weak = UsizeMax) <=> (Cardinality(InWindow) = 1))
  /\ [][(weak' = UsizeMax /\ weak # UsizeMax) =>
          (weak = 1 /\ \E t \in Threads :
                         pc[t] = "idle" /\ pc'[t] = "gm_load")]_vars

C18_Witness ==
  /\ weak = UsizeMax
  /\ \E t \in Threads : pc[t] = "dg_loop" /\ n[t] = UsizeMax

\* C19: while weak holds the sentinel no step changes weak except the
\* store of the get_mut that wrote it, which puts back 1, the value it
\* replaced; no weak handle is live and no Weak::drop, upgrade or last
\* strong drop is in progress meanwhile.
C19_SentinelFrame ==
  /\ [](weak = UsizeMax =>
          /\ NumWeak = 0
          /\ \A t \in Threads :
               pc[t] \notin {"sd_destroy", "sd_weak", "sd_free", "wd_free",
                             "up_loop", "up_some", "up_none"})
  /\ [][weak = UsizeMax =>
          \/ weak' = UsizeMax
          \/ /\ weak' = 1
             /\ \E t \in Threads :
                  pc[t] = "gm_store" /\ pc'[t] \in {"gm_some", "gm_none"}]_vars

C19_Witness ==
  /\ weak = UsizeMax
  /\ \E t, u \in Threads :
       pc[t] = "gm_store" /\ pc[u] = "dg_loop" /\ n[u] = 1

\* C20: the payload is destroyed before the block is freed: the last
\* strong drop has destroyed it when it releases its unit, a releaser that
\* frees finds it destroyed, and the free does not run the destructor.
C20_DestroyBeforeFree ==
  /\ []((freed > 0 \/ \E t \in Threads :
                        pc[t] \in {"sd_weak", "sd_free", "wd_free"})
          => dropCount = 1)
  /\ [][freed' # freed => (dropCount = 1 /\ dropCount' = 1)]_vars

C20_Witness ==
  dropCount = 1 /\ freed = 0 /\ \E t \in Threads : pc[t] = "wd_free"

\* ======== arc.rs: which operations wait ========
\* positions inside clone, drop, Weak::drop, get_mut, deref and the return
\* of upgrade, with the number of own steps the operation still takes
StepsLeft ==
  [p \in {"idle", "cl_add", "sd_destroy", "sd_weak", "sd_free", "wd_free",
          "gm_load", "gm_store", "gm_some", "gm_none", "deref",
          "up_some", "up_none"} |->
     CASE p = "idle" -> 0
       [] p \in {"sd_destroy", "gm_load"} -> 3
       [] p \in {"sd_weak", "gm_store"} -> 2
       [] OTHER -> 1]

FixedPcs == DOMAIN StepsLeft \ {"idle"}

\* a thread inside one of these operations always has a step to take, and
\* each of its steps brings it nearer to the return
NoWaiting ==
  /\ [](\A t \in Threads :
          pc[t] \in FixedPcs => ENABLED <<Continue(t)>>_vars)
  /\ [][\A t \in Threads :
          (pc[t] \in FixedPcs /\ Continue(t))
            => /\ pc'[t] \in DOMAIN StepsLeft
               /\ StepsLeft[pc'[t]] < StepsLeft[pc[t]]]_vars

\* thread t's upgrade goes round its loop again
UpgradeRepeats(t) ==
  /\ pc[t] = "up_loop" /\ pc'[t] = "up_loop"
  /\ \E b \in BOOLEAN : UpgradeLoop(t, b)

\* with finitely many operations started, every call returns
AllCallsReturn ==
  (<>[][\A u \in Threads : ~OpStart(u)]_vars)
    => \A t \in Threads : (pc[t] # "idle") ~> (pc[t] = "idle")

\* C21 as stated: apart from downgrade's spin no operation waits on another
\* thread; clone, drop, Weak::clone, Weak::drop and get_mut finish in a fixed
\* number of their own steps, upgrade repeats its loop only after another
\* thread has changed strong, and under fair scheduling with finitely many
\* operations every call terminates.
C21_NoWaitingUpgradeRepeatsOnChange ==
  /\ NoWaiting
  /\ [][\A t \in Threads : UpgradeRepeats(t) => strong # n[t]]_vars
  /\ AllCallsReturn

\* C21 amended: the same, except that upgrade repeats its loop only after
\* another thread has changed strong or after its compare_exchange_weak has
\* failed spuriously, which leaves the counters as they are.
C21_NoWaitingUpgradeRepeatsOnFailure ==
  /\ NoWaiting
  /\ [][\A t \in Threads :
          UpgradeRepeats(t)
            => \/ strong # n[t] /\ n'[t] = strong
               \/ strong = n[t] /\ strong' = strong /\ n' = n]_vars
  /\ AllCallsReturn

\* an upgrade has gone round its loop and strong is what it holds in
\* strong_count, while another thread reads the payload
C21_Witness ==
  \E t, u \in Threads :
    /\ pc[t] = "up_loop" /\ retried[t] /\ strong = n[t]
    /\ pc[u] = "deref"

\* ======== channel_split.rs: wake-up of the receiver ========
\* both threads are scheduled; park is only sure to return when the token
\* is set
SpecSplitFair ==
  /\ InitSplit /\ [][NextSplit]_vars
  /\ WF_vars(SplitSendWrite \/ SplitSendStore \/ SplitSendUnpark)
  /\ WF_vars(SplitReceiveSwap \/ SplitReceivePark(FALSE) \/ SplitReceiveRead)

\* C22: with receive() on the thread that called split(), a receiver inside
\* receive() eventually returns once send() is called, in every
\* interleaving: a store to ready and an unpark that fall between the
\* receiver's unsuccessful swap and its park are not lost.
C22_NoMissedWakeup ==
  (chan.rpc \in {"swap", "park"}) ~> (chan.rpc = "done")

\* the receiver's swap found no message, and the sender stored ready and
\* unparked before the receiver parks
C22_Witness ==
  chan.rpc = "park" /\ chan.ready /\ chan.token /\ chan.spc = "done"

\* ======== semaphore.rs: Semaphore ========
SemThreads == 1..NumSemThreads

\* Semaphore::new(value) behind an Arc, shared by the threads
SemaphoreNew(v) ==
  [value |-> v,              \* the usize behind the Mutex
   mutex |-> 0,              \* the thread that holds the guard (0: none)
   poisoned |-> FALSE,       \* a thread panicked while holding the guard
   pc |-> [t \in SemThreads |-> "idle"],
   initial |-> v,            \* the argument of new
   acquires |-> 0,           \* decrements of value made by acquire
   releases |-> 0,           \* increments of value made by release
   calls |-> 0]              \* calls of acquire and release so far

InitSem ==
  /\ ArcOff /\ chan = <<>> /\ sq = <<>> /\ sv = <<>>
  /\ \E v \in 0..MaxValue : sem = SemaphoreNew(v)

\* the same, or a semaphore created with usize::MAX permits
InitSemMax ==
  /\ ArcOff /\ chan = <<>> /\ sq = <<>> /\ sv = <<>>
  /\ \E v \in (0..MaxValue) \cup {UsizeMax} : sem = SemaphoreNew(v)

SemStep == UNCHANGED <<arcVars, chan, sq, sv>>

\* thread t calls acquire
AcquireCall(t) ==
  /\ SemStep /\ sem.pc[t] = "idle" /\ sem.calls < MaxSemOps
  /\ sem' = [sem EXCEPT !.pc[t] = "a_lock", !.calls = @ + 1]

\* thread t calls release
ReleaseCall(t) ==
  /\ SemStep /\ sem.pc[t] = "idle" /\ sem.calls < MaxSemOps
  /\ sem' = [sem EXCEPT !.pc[t] = "r_lock", !.calls = @ + 1]

\* value.lock().unwrap(), also the re-lock at the end of cond_var.wait:
\* waits for the mutex, panics if it is poisoned
SemLock(t) ==
  /\ SemStep /\ sem.pc[t] \in {"a_lock", "a_relock", "r_lock"}
  /\ sem.mutex = 0
  /\ IF sem.poisoned
       THEN sem' = [sem EXCEPT !.pc[t] = "panicked"]
       ELSE sem' = [sem EXCEPT
                      !.mutex = t,
                      !.pc[t] = IF sem.pc[t] = "r_lock" THEN "r_add"
                                                        ELSE "a_check"]

\* acquire, lines 20-24: while *guard <= 0 wait on the condition variable,
\* which releases the mutex; else *guard -= 1 and the guard is dropped
AcquireCheck(t) ==
  /\ SemStep /\ sem.pc[t] = "a_check"
  /\ IF sem.value <= 0
       THEN sem' = [sem EXCEPT !.mutex = 0, !.pc[t] = "a_wait"]
       ELSE sem' = [sem EXCEPT !.value = @ - 1,
                               !.acquires = @ + 1,
                               !.mutex = 0,
                               !.pc[t] = "idle"]

\* cond_var.wait returns without a notification
SpuriousWake(t) ==
  /\ SemStep /\ sem.pc[t] = "a_wait"
  /\ sem' = [sem EXCEPT !.pc[t] = "a_relock"]

\* release, line 27: *guard += 1 and the guard is dropped.  At usize::MAX
\* the addition overflows: it panics with the guard held (overflow checks
\* on), or wraps to 0 (overflow checks off)
ReleaseAdd(t) ==
  /\ SemStep /\ sem.pc[t] = "r_add"
  /\ IF sem.value = UsizeMax
       THEN \E checks \in BOOLEAN :
              sem' = IF checks
                       THEN [sem EXCEPT !.poisoned = TRUE,
                                        !.mutex = 0,
                                        !.pc[t] = "panicked"]
                       ELSE [sem EXCEPT !.value = WrapAdd(@, 1),
                                        !.releases = @ + 1,
                                        !.mutex = 0,
                                        !.pc[t] = "r_notify"]
       ELSE sem' = [sem EXCEPT !.value = @ + 1,
                               !.releases = @ + 1,
                               !.mutex = 0,
                               !.pc[t] = "r_notify"]

\* variant: release wakes nobody
ReleaseNotify_NoNotify(t) ==
  /\ SemStep /\ sem.pc[t] = "r_notify"
  /\ sem' = [sem EXCEPT !.pc[t] = "idle"]

\* release, line 28: cond_var.notify_all() wakes every waiting thread
ReleaseNotify(t) ==
  /\ SemStep /\ sem.pc[t] = "r_notify"
  /\ sem' = [sem EXCEPT
               !.pc = [u \in SemThreads |->
                         IF u = t THEN "idle"
                         ELSE IF sem.pc[u] = "a_wait" THEN "a_relock"
                         ELSE sem.pc[u]]]

\* the steps a thread takes once it is inside a call and not waiting on the
\* condition variable
SemThread(t) ==
  SemLock(t) \/ AcquireCheck(t) \/ ReleaseAdd(t) \/ ReleaseNotify(t)

NextSem ==
  \/ \E t \in SemThreads : AcquireCall(t)
  \/ \E t \in SemThreads : ReleaseCall(t)
  \/ \E t \in SemThreads : SemLock(t)
  \/ \E t \in SemThreads : AcquireCheck(t)
  \/ \E t \in SemThreads : SpuriousWake(t)
  \/ \E t \in SemThreads : ReleaseAdd(t)
  \/ \E t \in SemThreads : ReleaseNotify(t)

\* threads inside a call are scheduled; nobody has to make a call, and no
\* wait has to return spuriously
SpecSem ==
  InitSem /\ [][NextSem]_vars /\ \A t \in SemThreads : WF_vars(SemThread(t))

SpecSemMax == InitSemMax /\ [][NextSem]_vars

InAcquire(t) == sem.pc[t] \in {"a_lock", "a_check", "a_wait", "a_relock"}

\* C23: an acquire for which a permit is or becomes available eventually
\* returns: while the value is positive a thread inside acquire does not
\* stay there, unless other acquires take the value down to 0 first.
C23_AcquireReturns ==
  \A t \in SemThreads :
    (InAcquire(t) /\ sem.value > 0) ~> (~InAcquire(t) \/ sem.value = 0)

\* a thread waits on value 0 with the mutex free, and a release has been
\* called by another thread
C23_Witness ==
  \E t, u \in SemThreads :
    /\ sem.pc[t] = "a_wait" /\ sem.value = 0 /\ sem.initial = 0
    /\ sem.pc[u] = "r_lock"

\* C24: the value never goes below zero: the decrements made by acquire
\* never exceed the initial value plus the increments made by release, and
\* the value is initial + releases - acquires.
C24_ValueIsBalance ==
  /\ sem.value >= 0
  /\ sem.acquires <= sem.initial + sem.releases
  /\ sem.value = sem.initial + sem.releases - sem.acquires

\* ======== bounded_queue.rs: the queue never over- or underflows ========
SpecQueueAny == InitQueueAny /\ [][NextQueue]_vars

\* C25: for any producers and consumers using the SharedQueue through
\* producer() and consumer(), 0 <= puts - gets <= CAPACITY in every state:
\* put never writes a slot whose value has not been consumed, and get never
\* reads a slot that has not been filled since it was last consumed.
C25_QueueWithinCapacity ==
  /\ [](sq.puts - sq.gets \in 0..CAPACITY)
  /\ [][sq'.puts # sq.puts => ~sq.full[sq.producer]]_vars
  /\ [][sq'.gets # sq.gets => sq.full[sq.consumer]]_vars

\* the queue is full and a producer waits for a permit, while one of two
\* consumers is about to take the oldest value
C25_Witness ==
  /\ sq.puts - sq.gets = CAPACITY
  /\ \E t \in Producers : sq.pc[t] = "acquire"
  /\ \A t \in Consumers : sq.loops[t] > 0
  /\ \E t \in Consumers : sq.pc[t] = "get"
====
